---------------------------- MODULE Spec2Model ----------------------------
(***************************************************************************)
(* Per-user request admission control: SlidingWindowRateLimiter            *)
(* (src/rate_limiter.py) and ThrottlingRateLimiter (src/throlling.py).     *)
(*                                                                         *)
(* Time is the reading of time.time(), modelled in whole ticks.  A run     *)
(* constructs one limiter object (self) and then calls its methods; the    *)
(* clock never goes back, and it may advance between two readings taken    *)
(* inside one call.                                                        *)
(***************************************************************************)
EXTENDS Integers, Sequences, FiniteSets

\* Bounds of the model.
MaxTime == 3          \* last clock reading explored
MaxDelta == 1         \* largest clock advance between two readings of one call
MaxWindow == 2        \* window_size ranges over 1..MaxWindow
MaxMaxRequests == 2   \* max_requests ranges over 1..MaxMaxRequests
MaxInterval == 2      \* min_interval ranges over 0..MaxInterval

\* User identifiers, as the demonstrations build them: str(message_id % 5 + 1).
Users == {"1", "2"}

\* The threads of the concurrent run, and the user both call record_message for.
Threads == {"A", "B"}

RaceUser == "1"

VARIABLES
    now,        \* the value time.time() returns
    self,       \* the limiter object: its class and its fields
    call,       \* the call that returned in the last step (NoCall after a tick)
    recorded,   \* users that were ever passed to record_message
    admitted,   \* per user, the readings stored by the admitted record_message calls
                \* that lie less than Span before the newest of them
    last_wait,  \* per user, the last time_until_next_allowed result since the last admission
    threads,    \* two record_message calls running at the same time: their position and locals
    race        \* what held when the two calls began, and whether their steps interleaved

conc == <<threads, race>>

vars == <<now, self, call, recorded, admitted, last_wait, threads, race>>

Max(a, b) == IF a >= b THEN a ELSE b

EmptyMap == [u \in {} |-> 0]

\* d[k] = v on a dict
MapSet(d, k, v) == [x \in DOMAIN d \cup {k} |-> IF x = k THEN v ELSE d[x]]

\* del d[k]
MapDel(d, k) == [x \in DOMAIN d \ {k} |-> d[x]]

-----------------------------------------------------------------------------
(* SlidingWindowRateLimiter *)

SlidingWindowRateLimiter(window_size, max_requests) ==
    [class |-> "SlidingWindowRateLimiter",
     window_size |-> window_size,
     max_requests |-> max_requests,
     users_requests |-> EmptyMap]

\* Faulty variant of PopExpired: a timestamp exactly window_size old is kept.
RECURSIVE PopExpiredStrict(_, _)
PopExpiredStrict(window, bound) ==
    IF window # <<>> /\ Head(window) < bound
    THEN PopExpiredStrict(Tail(window), bound)
    ELSE window

\* Faulty variant of PopExpired: an if in place of the while, one timestamp popped.
PopExpiredOnce(window, bound) ==
    IF window # <<>> /\ Head(window) <= bound
    THEN Tail(window)
    ELSE window

\* while window and window[0] <= current_time - self.window_size: window.popleft()
RECURSIVE PopExpired(_, _)
PopExpired(window, bound) ==
    IF window # <<>> /\ Head(window) <= bound
    THEN PopExpired(Tail(window), bound)
    ELSE window

\* Faulty variant of cleanup_window: the deques of all users are pruned.
cleanup_window_AllUsers(obj, user_id, current_time) ==
    IF user_id \notin DOMAIN obj.users_requests
    THEN obj
    ELSE LET pruned == [u \in DOMAIN obj.users_requests |->
                           PopExpired(obj.users_requests[u],
                                      current_time - obj.window_size)]
             kept == {u \in DOMAIN pruned : pruned[u] # <<>>}
         IN  [obj EXCEPT !.users_requests = [u \in kept |-> pruned[u]]]

\* Faulty variant of cleanup_window: an emptied deque stays in the mapping.
cleanup_window_KeepsEmpty(obj, user_id, current_time) ==
    IF user_id \notin DOMAIN obj.users_requests
    THEN obj
    ELSE [obj EXCEPT !.users_requests =
             MapSet(@, user_id, PopExpired(obj.users_requests[user_id],
                                           current_time - obj.window_size))]

cleanup_window(obj, user_id, current_time) ==
    IF user_id \notin DOMAIN obj.users_requests
    THEN obj
    ELSE LET window == PopExpired(obj.users_requests[user_id],
                                  current_time - obj.window_size)
         IN  IF window = <<>>
             THEN [obj EXCEPT !.users_requests = MapDel(@, user_id)]
             ELSE [obj EXCEPT !.users_requests = MapSet(@, user_id, window)]

\* Faulty variant of SlidingAllowed: a user at capacity is still allowed.
SlidingAllowedOffByOne(obj, user_id) ==
    IF user_id \notin DOMAIN obj.users_requests
    THEN TRUE
    ELSE Len(obj.users_requests[user_id]) <= obj.max_requests

\* Faulty variant of SlidingAllowed: an untracked user is compared as an empty
\* sequence.
SlidingAllowedCountsAbsent(obj, user_id) ==
    IF user_id \notin DOMAIN obj.users_requests
    THEN 0 < obj.max_requests
    ELSE Len(obj.users_requests[user_id]) < obj.max_requests

\* The comparison of can_send_message, on the cleaned object.
SlidingAllowed(obj, user_id) ==
    IF user_id \notin DOMAIN obj.users_requests
    THEN TRUE
    ELSE Len(obj.users_requests[user_id]) < obj.max_requests

\* Faulty variant of Sliding_can_send_message: the query takes the slot it finds.
Sliding_can_send_message_TakesSlot(obj, user_id, current_time) ==
    LET cleaned == cleanup_window(obj, user_id, current_time)
        window == IF user_id \in DOMAIN cleaned.users_requests
                  THEN cleaned.users_requests[user_id]
                  ELSE <<>>
    IN  IF SlidingAllowed(cleaned, user_id)
        THEN [self |-> [cleaned EXCEPT !.users_requests =
                           MapSet(@, user_id, Append(window, current_time))],
              ret |-> TRUE]
        ELSE [self |-> cleaned, ret |-> FALSE]

\* current_time is the reading of line 36.
Sliding_can_send_message(obj, user_id, current_time) ==
    LET cleaned == cleanup_window(obj, user_id, current_time)
    IN  [self |-> cleaned, ret |-> SlidingAllowed(cleaned, user_id)]

\* Faulty variant of SlidingAppend: appendleft in place of append.
SlidingAppendLeft(obj, user_id, current_time) ==
    LET window == IF user_id \in DOMAIN obj.users_requests
                  THEN obj.users_requests[user_id]
                  ELSE <<>>
    IN  [obj EXCEPT !.users_requests = MapSet(@, user_id, <<current_time>> \o window)]

\* self.users_requests[user_id].append(current_time), creating the deque if absent
SlidingAppend(obj, user_id, current_time) ==
    LET window == IF user_id \in DOMAIN obj.users_requests
                  THEN obj.users_requests[user_id]
                  ELSE <<>>
    IN  [obj EXCEPT !.users_requests = MapSet(@, user_id, Append(window, current_time))]

\* Faulty variant of Sliding_record_message: the timestamp is appended before
\* the decision is looked at.
Sliding_record_message_AppendsFirst(obj, user_id, current_time, check_time) ==
    LET cleaned == cleanup_window(obj, user_id, current_time)
        check == Sliding_can_send_message(cleaned, user_id, check_time)
    IN  [self |-> SlidingAppend(check.self, user_id, current_time), ret |-> check.ret]

\* current_time is the reading of line 51, check_time the reading that the
\* can_send_message it calls takes at line 36.
Sliding_record_message(obj, user_id, current_time, check_time) ==
    LET cleaned == cleanup_window(obj, user_id, current_time)
        check == Sliding_can_send_message(cleaned, user_id, check_time)
    IN  IF check.ret
        THEN [self |-> SlidingAppend(check.self, user_id, current_time), ret |-> TRUE]
        ELSE [self |-> check.self, ret |-> FALSE]

\* Faulty variant of SlidingWait: the elapsed time is added.
SlidingWaitSignError(obj, window, current_time) ==
    Max(obj.window_size + (current_time - window[1]), 0)

\* wait_time = self.window_size - (current_time - earliest); max(wait_time, 0.0)
SlidingWait(obj, window, current_time) ==
    Max(obj.window_size - (current_time - window[1]), 0)

Sliding_time_until_next_allowed(obj, user_id, current_time) ==
    IF user_id \notin DOMAIN obj.users_requests
    THEN [self |-> obj, ret |-> 0]
    ELSE LET cleaned == cleanup_window(obj, user_id, current_time)
         IN  IF user_id \notin DOMAIN cleaned.users_requests
             THEN [self |-> cleaned, ret |-> 0]
             ELSE LET window == cleaned.users_requests[user_id]
                  IN  IF Len(window) < cleaned.max_requests
                      THEN [self |-> cleaned, ret |-> 0]
                      ELSE [self |-> cleaned,
                            ret |-> SlidingWait(cleaned, window, current_time)]

-----------------------------------------------------------------------------
(* ThrottlingRateLimiter *)

ThrottlingRateLimiter(min_interval) ==
    [class |-> "ThrottlingRateLimiter",
     min_interval |-> min_interval,
     user_last_message_time |-> EmptyMap]

\* Faulty variant of Throttling_can_send_message: exactly min_interval is too early.
Throttling_can_send_message_Strict(obj, user_id, current_time) ==
    IF user_id \notin DOMAIN obj.user_last_message_time
    THEN TRUE
    ELSE (current_time - obj.user_last_message_time[user_id]) > obj.min_interval

\* Faulty variant of Throttling_can_send_message: an unknown user is refused
\* when min_interval is positive.
Throttling_can_send_message_NoDefault(obj, user_id, current_time) ==
    IF user_id \notin DOMAIN obj.user_last_message_time
    THEN current_time >= obj.min_interval
    ELSE (current_time - obj.user_last_message_time[user_id]) >= obj.min_interval

Throttling_can_send_message(obj, user_id, current_time) ==
    IF user_id \notin DOMAIN obj.user_last_message_time
    THEN TRUE
    ELSE (current_time - obj.user_last_message_time[user_id]) >= obj.min_interval

\* Faulty variant of Throttling_record_message: the reading of the check is stored.
Throttling_record_message_StoresCheckTime(obj, user_id, check_time, store_time) ==
    IF Throttling_can_send_message(obj, user_id, check_time)
    THEN [self |-> [obj EXCEPT !.user_last_message_time = MapSet(@, user_id, check_time)],
          ret |-> TRUE]
    ELSE [self |-> obj, ret |-> FALSE]

\* check_time is the reading of can_send_message (line 15), store_time the
\* reading stored at line 30.
Throttling_record_message(obj, user_id, check_time, store_time) ==
    IF Throttling_can_send_message(obj, user_id, check_time)
    THEN [self |-> [obj EXCEPT !.user_last_message_time = MapSet(@, user_id, store_time)],
          ret |-> TRUE]
    ELSE [self |-> obj, ret |-> FALSE]

\* Faulty variant of Throttling_time_until_next_allowed: the elapsed time is added.
Throttling_time_until_next_allowed_SignError(obj, user_id, current_time) ==
    IF user_id \notin DOMAIN obj.user_last_message_time
    THEN 0
    ELSE Max(0, obj.min_interval + (current_time - obj.user_last_message_time[user_id]))

\* Faulty variant of Throttling_time_until_next_allowed: the result is not clamped.
Throttling_time_until_next_allowed_Unclamped(obj, user_id, current_time) ==
    IF user_id \notin DOMAIN obj.user_last_message_time
    THEN 0
    ELSE obj.min_interval - (current_time - obj.user_last_message_time[user_id])

Throttling_time_until_next_allowed(obj, user_id, current_time) ==
    IF user_id \notin DOMAIN obj.user_last_message_time
    THEN 0
    ELSE Max(0, obj.min_interval - (current_time - obj.user_last_message_time[user_id]))

-----------------------------------------------------------------------------
(* Observation of the calls *)

NoCall == [op |-> "none", user |-> "", allowed |-> FALSE, wait |-> 0,
           first |-> 0, last |-> 0]

NoWait == [known |-> FALSE, w |-> 0, until |-> 0, fell |-> FALSE]

\* A wait w returned at reading t, after the result before (if any): a positive
\* wait ends at t + w; fell says that the result before it was larger.
Waited(before, t, w) ==
    [known |-> TRUE, w |-> w, until |-> IF w > 0 THEN t + w ELSE 0,
     fell |-> before.known /\ before.w > w]

\* The clock readings a call took, first to last, and what it returned.
Returned(op, user_id, allowed, wait, first, last) ==
    [op |-> op, user |-> user_id, allowed |-> allowed, wait |-> wait,
     first |-> first, last |-> last]

\* The span inside which admitted calls are limited.
Span == IF self.class = "SlidingWindowRateLimiter" THEN self.window_size
        ELSE self.min_interval

\* The stored readings of a user's admitted calls that lie less than Span before
\* the newest of them.  Stored readings never decrease, so every set of admitted
\* calls closer together than Span shows up here when its last call is admitted.
Remember(history, t) ==
    LET Near(x) == x > t - Span
    IN  Append(SelectSeq(history, Near), t)

\* A thread that has not called record_message yet.  The locals of a call
\* (current_time of record_message, current_time of can_send_message as
\* check_time) are gone when the call that owns them returns.
Idle == [pc |-> "idle", current_time |-> 0, check_time |-> 0, ret |-> FALSE]

NoRace == [begun |-> FALSE, free |-> 0, expires |-> 0, interleaved |-> FALSE]

IsSliding == self.class = "SlidingWindowRateLimiter"

IsThrottling == self.class = "ThrottlingRateLimiter"

-----------------------------------------------------------------------------
(* State machine *)

Init ==
    /\ now = 0
    /\ \/ \E w \in 1..MaxWindow, m \in 1..MaxMaxRequests :
            self = SlidingWindowRateLimiter(w, m)
       \/ \E i \in 0..MaxInterval :
            self = ThrottlingRateLimiter(i)
    /\ call = NoCall
    /\ recorded = {}
    /\ admitted = [u \in Users |-> <<>>]
    /\ last_wait = [u \in Users |-> NoWait]
    /\ threads = [th \in Threads |-> Idle]
    /\ race = NoRace

\* Time passes between two calls.
Tick ==
    /\ now < MaxTime
    /\ now' = now + 1
    /\ call' = NoCall
    /\ UNCHANGED <<self, recorded, admitted, last_wait, conc>>

SlidingCanSendMessage(u) ==
    /\ IsSliding
    /\ LET r == Sliding_can_send_message(self, u, now)
       IN  /\ self' = r.self
           /\ call' = Returned("can_send_message", u, r.ret, 0, now, now)
    /\ UNCHANGED <<now, recorded, admitted, last_wait, conc>>

SlidingRecordMessage(u, d) ==
    /\ IsSliding
    /\ now + d <= MaxTime
    /\ LET r == Sliding_record_message(self, u, now, now + d)
       IN  /\ self' = r.self
           /\ call' = Returned("record_message", u, r.ret, 0, now, now + d)
           /\ admitted' = IF r.ret
                          THEN [admitted EXCEPT ![u] = Remember(@, now)]
                          ELSE admitted
           /\ last_wait' = IF r.ret
                           THEN [last_wait EXCEPT ![u] = NoWait]
                           ELSE last_wait
    /\ now' = now + d
    /\ recorded' = recorded \cup {u}
    /\ UNCHANGED conc

SlidingTimeUntilNextAllowed(u) ==
    /\ IsSliding
    /\ LET r == Sliding_time_until_next_allowed(self, u, now)
       IN  /\ self' = r.self
           /\ call' = Returned("time_until_next_allowed", u, FALSE, r.ret, now, now)
           /\ last_wait' = [last_wait EXCEPT ![u] = Waited(@, now, r.ret)]
    /\ UNCHANGED <<now, recorded, admitted, conc>>

ThrottlingCanSendMessage(u) ==
    /\ IsThrottling
    /\ call' = Returned("can_send_message", u,
                        Throttling_can_send_message(self, u, now), 0, now, now)
    /\ UNCHANGED <<now, self, recorded, admitted, last_wait, conc>>

\* The second reading (line 30) is taken only when the check admits.
ThrottlingRecordMessage(u, d) ==
    /\ IsThrottling
    /\ now + d <= MaxTime
    /\ LET r == Throttling_record_message(self, u, now, now + d)
           last == IF r.ret THEN now + d ELSE now
       IN  /\ self' = r.self
           /\ call' = Returned("record_message", u, r.ret, 0, now, last)
           /\ admitted' = IF r.ret
                          THEN [admitted EXCEPT ![u] = Remember(@, now + d)]
                          ELSE admitted
           /\ last_wait' = IF r.ret
                           THEN [last_wait EXCEPT ![u] = NoWait]
                           ELSE last_wait
           /\ now' = last
           /\ r.ret \/ d = 0
    /\ recorded' = recorded \cup {u}
    /\ UNCHANGED conc

ThrottlingTimeUntilNextAllowed(u) ==
    /\ IsThrottling
    /\ LET w == Throttling_time_until_next_allowed(self, u, now)
       IN  /\ call' = Returned("time_until_next_allowed", u, FALSE, w, now, now)
           /\ last_wait' = [last_wait EXCEPT ![u] = Waited(@, now, w)]
    /\ UNCHANGED <<now, self, recorded, admitted, conc>>

Next ==
    \/ Tick
    \/ \E u \in Users : SlidingCanSendMessage(u)
    \/ \E u \in Users, d \in 0..MaxDelta : SlidingRecordMessage(u, d)
    \/ \E u \in Users : SlidingTimeUntilNextAllowed(u)
    \/ \E u \in Users : ThrottlingCanSendMessage(u)
    \/ \E u \in Users, d \in 0..MaxDelta : ThrottlingRecordMessage(u, d)
    \/ \E u \in Users : ThrottlingTimeUntilNextAllowed(u)

Spec == Init /\ [][Next]_vars

-----------------------------------------------------------------------------
(* Two record_message calls of one user running at the same time.  Each call  *)
(* is cut into the steps of lines 51, 52, 36, 37, 39-44 and 55-60; a step is  *)
(* atomic and the steps of the two calls interleave in any order.             *)

AllIdle == \A th \in Threads : threads[th].pc = "idle"

Other(th) == CHOOSE o \in Threads : o # th

\* The user's timestamps that are younger than window_size at reading t.
Live(obj, u, t) ==
    LET window == IF u \in DOMAIN obj.users_requests
                  THEN obj.users_requests[u] ELSE <<>>
    IN  {i \in 1..Len(window) : window[i] > t - obj.window_size}

\* The first reading at which a timestamp that is live at t, or one stored at t
\* or later, leaves the window.
FirstExpiry(obj, u, t) ==
    LET window == obj.users_requests[u]
        oldest == CHOOSE i \in Live(obj, u, t) :
                     \A j \in Live(obj, u, t) : window[i] <= window[j]
    IN  IF Live(obj, u, t) = {} THEN t + obj.window_size
        ELSE window[oldest] + obj.window_size

\* Both threads call record_message(RaceUser).
Begin ==
    /\ IsSliding
    /\ AllIdle
    /\ threads' = [th \in Threads |-> [Idle EXCEPT !.pc = "read_time"]]
    /\ race' = [begun |-> TRUE,
                free |-> self.max_requests - Cardinality(Live(self, RaceUser, now)),
                expires |-> FirstExpiry(self, RaceUser, now),
                interleaved |-> FALSE]
    /\ call' = NoCall
    /\ UNCHANGED <<now, self, recorded, admitted, last_wait>>

\* A step of th interleaves when the other call is under way.
Interleaves(th) == threads[Other(th)].pc \notin {"read_time", "done"}

Advance(th, t) ==
    /\ threads' = [threads EXCEPT ![th] = t]
    /\ race' = [race EXCEPT !.interleaved = @ \/ Interleaves(th)]
    /\ UNCHANGED <<now, call, recorded, admitted, last_wait>>

\* line 51: current_time = time.time()
ReadTime(th) ==
    /\ threads[th].pc = "read_time"
    /\ Advance(th, [threads[th] EXCEPT !.pc = "cleanup", !.current_time = now])
    /\ UNCHANGED self

\* line 52: self._cleanup_window(user_id, current_time)
Cleanup(th) ==
    /\ threads[th].pc = "cleanup"
    /\ self' = cleanup_window(self, RaceUser, threads[th].current_time)
    /\ Advance(th, [threads[th] EXCEPT !.pc = "check_read_time"])

\* line 36, in can_send_message: current_time = time.time()
CheckReadTime(th) ==
    /\ threads[th].pc = "check_read_time"
    /\ Advance(th, [threads[th] EXCEPT !.pc = "check_cleanup", !.check_time = now])
    /\ UNCHANGED self

\* line 37, in can_send_message: self._cleanup_window(user_id, current_time)
CheckCleanup(th) ==
    /\ threads[th].pc = "check_cleanup"
    /\ self' = cleanup_window(self, RaceUser, threads[th].check_time)
    /\ Advance(th, [threads[th] EXCEPT !.pc = "check"])

\* lines 39-44 and 54: the result of can_send_message; line 60 when it is false
Check(th) ==
    /\ threads[th].pc = "check"
    /\ Advance(th, IF SlidingAllowed(self, RaceUser)
                   THEN [threads[th] EXCEPT !.pc = "append", !.check_time = 0]
                   ELSE [Idle EXCEPT !.pc = "done", !.ret = FALSE])
    /\ UNCHANGED self

\* lines 55-58: create the deque if absent, append current_time, return True
AppendTime(th) ==
    /\ threads[th].pc = "append"
    /\ self' = SlidingAppend(self, RaceUser, threads[th].current_time)
    /\ Advance(th, [Idle EXCEPT !.pc = "done", !.ret = TRUE])

\* Before the two calls begin, the user's requests are recorded one at a time.
Earlier ==
    /\ AllIdle
    /\ \E d \in 0..MaxDelta : SlidingRecordMessage(RaceUser, d)

ConcInit ==
    /\ Init
    /\ IsSliding

ConcNext ==
    \/ Tick
    \/ Earlier
    \/ Begin
    \/ \E th \in Threads : ReadTime(th)
    \/ \E th \in Threads : Cleanup(th)
    \/ \E th \in Threads : CheckReadTime(th)
    \/ \E th \in Threads : CheckCleanup(th)
    \/ \E th \in Threads : Check(th)
    \/ \E th \in Threads : AppendTime(th)

ConcSpec == ConcInit /\ [][ConcNext]_vars

-----------------------------------------------------------------------------
(* A sliding-window limiter built with max_requests = 0, which the         *)
(* constructor does not reject.                                            *)

ZeroInit ==
    /\ now = 0
    /\ \E w \in 1..MaxWindow : self = SlidingWindowRateLimiter(w, 0)
    /\ call = NoCall
    /\ recorded = {}
    /\ admitted = [u \in Users |-> <<>>]
    /\ last_wait = [u \in Users |-> NoWait]
    /\ threads = [th \in Threads |-> Idle]
    /\ race = NoRace

ZeroNext ==
    \/ Tick
    \/ \E u \in Users : SlidingCanSendMessage(u)
    \/ \E u \in Users, d \in 0..MaxDelta : SlidingRecordMessage(u, d)
    \/ \E u \in Users : SlidingTimeUntilNextAllowed(u)

SpecZero == ZeroInit /\ [][ZeroNext]_vars

-----------------------------------------------------------------------------
(* Properties *)

\* The user's deque, empty when the user is not tracked.
Window(obj, u) ==
    IF u \in DOMAIN obj.users_requests THEN obj.users_requests[u] ELSE <<>>

\* How many readings of history are younger than window_size at reading t.
InWindow(history, t) ==
    Cardinality({i \in 1..Len(history) : history[i] > t - self.window_size})

IsRecord(c) == c.op = "record_message"

IsCanSend(c) == c.op = "can_send_message"

IsTimeUntil(c) == c.op = "time_until_next_allowed"

\* C1: sliding-window capacity.  For every user, the stored readings of admitted
\* record_message calls that lie in one half-open interval (T - window_size, T]
\* number at most max_requests, also when the clock advances between the two
\* readings of one call.  (admitted[u] holds the readings less than window_size
\* before the newest admitted one.)
SlidingCapacity ==
    IsSliding => \A u \in Users : Len(admitted[u]) <= self.max_requests

\* C2: window eviction.  The occupancy a sliding-window call compares against
\* max_requests at its reading t is the number of the user's admitted readings
\* younger than window_size at t, so the call allows exactly when that number is
\* below max_requests; with max_requests = 1 a record_message reading the clock
\* at or after (newest admitted reading + window_size) returns true and one
\* reading it only before returns false.
WindowEviction ==
    [][(IsSliding /\ call'.op # "none") =>
        LET u == call'.user
            counted == Len(Window(self', u))
                       - (IF IsRecord(call') /\ call'.allowed THEN 1 ELSE 0)
            live == InWindow(admitted[u], call'.last)
        IN  /\ counted = live
            /\ (IsRecord(call') \/ IsCanSend(call'))
                 => (call'.allowed <=> live < self.max_requests)
            /\ IsTimeUntil(call')
                 => (call'.wait > 0 <=> live >= self.max_requests)
            /\ (IsRecord(call') /\ self.max_requests = 1 /\ admitted[u] # <<>>)
                 => LET t == admitted[u][Len(admitted[u])]
                    IN  /\ call'.first >= t + self.window_size => call'.allowed
                        /\ call'.last < t + self.window_size => ~call'.allowed
      ]_vars

\* C2 witness: a record_message is admitted although an admitted reading is
\* exactly window_size old at the reading of its check.
WindowEvictionWitness ==
    /\ IsSliding
    /\ IsRecord(call) /\ call.allowed
    /\ \E i \in 1..Len(admitted[call.user]) :
          admitted[call.user][i] = call.last - self.window_size

\* C3: throttle minimum spacing.  Two admitted record_message calls of a user
\* store readings at least min_interval apart (admitted[u] holds the readings
\* less than min_interval before the newest admitted one, so it holds one); a
\* record_message reading the clock less than min_interval after the stored
\* last time returns false, one reading it exactly min_interval after it
\* returns true.
ThrottleMinimumSpacing ==
    [][(IsThrottling /\ IsRecord(call')) =>
        LET u == call'.user
            known == u \in DOMAIN self.user_last_message_time
        IN  /\ Len(admitted'[u]) <= 1
            /\ (call'.allowed /\ known)
                 => call'.last - self.user_last_message_time[u] >= self.min_interval
            /\ (known /\ call'.first < self.user_last_message_time[u] + self.min_interval)
                 => ~call'.allowed
            /\ (known /\ call'.first = self.user_last_message_time[u] + self.min_interval)
                 => call'.allowed
      ]_vars

\* C3 witness: a record_message one tick short of min_interval is refused.
ThrottleMinimumSpacingWitness ==
    /\ IsThrottling
    /\ IsRecord(call) /\ ~call.allowed
    /\ self.min_interval >= 2
    /\ call.first = self.user_last_message_time[call.user] + self.min_interval - 1

\* The two calls have returned.
BothDone == \A th \in Threads : threads[th].pc = "done"

\* One slot was free when the calls began and no timestamp has left the window
\* since, so one slot is all there is for the two calls.
OneSlotFree == race.begun /\ race.free = 1 /\ now < race.expires

AtMostOneAdmitted ==
    /\ \E th \in Threads : ~threads[th].ret
    /\ Len(Window(self, RaceUser)) <= self.max_requests

\* C4: two record_message calls of one user running at the same time, their
\* steps interleaved in any order, with one slot free in the user's window: at
\* most one returns true and at most one timestamp is appended.
ConcurrentRecordAtMostOne ==
    (BothDone /\ OneSlotFree) => AtMostOneAdmitted

\* C4, amended: the same when the calls run one after the other, none of the
\* steps of one falling between the steps of the other.
SequentialRecordAtMostOne ==
    (BothDone /\ OneSlotFree /\ ~race.interleaved) => AtMostOneAdmitted

\* C4 witness: the two calls ran one after the other while the user's one
\* earlier timestamp aged inside the window; one returned true, the other false.
SequentialRecordWitness ==
    /\ BothDone /\ OneSlotFree /\ ~race.interleaved
    /\ \E th \in Threads : threads[th].ret /\ ~threads[Other(th)].ret
    /\ self.max_requests = 2
    /\ now + self.window_size > race.expires

\* C5: no mutation on rejection.  A sliding-window record_message that returns
\* false leaves the object as it was, nothing appended and nothing pruned, so
\* time_until_next_allowed gives at every later reading what it would have
\* given without the call.
NoMutationOnRejection ==
    [][(IsSliding /\ IsRecord(call') /\ ~call'.allowed) =>
        /\ self' = self
        /\ \A t \in now'..MaxTime :
              Sliding_time_until_next_allowed(self', call'.user, t).ret
                = Sliding_time_until_next_allowed(self, call'.user, t).ret
      ]_vars

\* C5 witness: a record_message of a user at capacity is refused while the
\* clock advances between its two readings.
NoMutationOnRejectionWitness ==
    /\ IsSliding
    /\ IsRecord(call) /\ ~call.allowed
    /\ call.last > call.first
    /\ self.max_requests = 2
    /\ Len(Window(self, call.user)) = 2

\* C6: the wait time is exact.  After time_until_next_allowed returned w > 0 at
\* reading t and while no request of the user is admitted, a record_message
\* whose readings are all before t + w returns false and one whose readings are
\* all at or after t + w returns true.
WaitTimeExact ==
    [][IsRecord(call') =>
        LET lw == last_wait[call'.user]
        IN  (lw.known /\ lw.w > 0) =>
               /\ call'.last < lw.until => ~call'.allowed
               /\ call'.first >= lw.until => call'.allowed
      ]_vars

\* C6 witness: a sliding-window record_message is refused one tick before the
\* announced end of the wait.
WaitTimeExactWitness ==
    /\ IsSliding
    /\ IsRecord(call) /\ ~call.allowed
    /\ last_wait[call.user].known
    /\ last_wait[call.user].w > 0
    /\ call.last = last_wait[call.user].until - 1
    /\ call.last > call.first

\* C7: wait-time monotonicity.  While no record_message of the user is
\* admitted, each time_until_next_allowed result is at most the one before and
\* never negative, and it is 0 at every reading at or after the end of the
\* blocking condition (front timestamp + window_size, last time + min_interval).
WaitTimeMonotone ==
    [][IsTimeUntil(call') =>
        LET u == call'.user
            lw == last_wait[u]
        IN  /\ call'.wait >= 0
            /\ lw.known => call'.wait <= lw.w
            /\ (lw.known /\ lw.w > 0 /\ now >= lw.until) => call'.wait = 0
            /\ (IsSliding /\ Window(self, u) # <<>>
                  /\ now >= Window(self, u)[1] + self.window_size)
                 => call'.wait = 0
            /\ (IsThrottling /\ u \in DOMAIN self.user_last_message_time
                  /\ now >= self.user_last_message_time[u] + self.min_interval)
                 => call'.wait = 0
      ]_vars

\* C7 witness: a sliding-window wait fell to 0 from a larger result, the user's
\* expired timestamp having been the one that blocked.
WaitTimeMonotoneWitness ==
    /\ IsSliding
    /\ IsTimeUntil(call) /\ call.wait = 0
    /\ last_wait[call.user].fell
    /\ call.user \notin DOMAIN self.users_requests

\* A user never passed to record_message, or, in the sliding window, one whose
\* timestamps are all window_size old or older.
Fresh(u) ==
    \/ u \notin recorded
    \/ /\ IsSliding
       /\ \A i \in 1..Len(Window(self, u)) :
             Window(self, u)[i] <= now - self.window_size

\* C8: unknown-user default.  For a user never passed to record_message, and in
\* the sliding window for a user whose timestamps have all expired,
\* can_send_message returns true, time_until_next_allowed returns 0 and
\* record_message returns true, whatever was done for other users.
UnknownUserDefault ==
    [][(call'.op # "none" /\ Fresh(call'.user)) =>
        /\ (IsCanSend(call') \/ IsRecord(call')) => call'.allowed
        /\ IsTimeUntil(call') => call'.wait = 0
      ]_vars

\* C8 witness: time_until_next_allowed returns 0 for a user never recorded while
\* the other user is tracked.
UnknownUserDefaultWitness ==
    /\ IsTimeUntil(call) /\ call.wait = 0
    /\ call.user \notin recorded
    /\ recorded # {}
    /\ \/ IsSliding /\ DOMAIN self.users_requests # {}
       \/ IsThrottling /\ DOMAIN self.user_last_message_time # {}

\* C9: the throttle's state changes only on admission.  An admitted
\* record_message sets the user's entry to the reading taken at the store; every
\* other step leaves the map as it is; no entry is deleted and no stored time
\* decreases.
ThrottleChangesOnlyOnAdmission ==
    [][IsThrottling =>
        LET before == self.user_last_message_time
            after == self'.user_last_message_time
        IN  /\ (IsRecord(call') /\ call'.allowed)
                 => after = MapSet(before, call'.user, call'.last)
            /\ ~(IsRecord(call') /\ call'.allowed) => after = before
            /\ DOMAIN before \subseteq DOMAIN after
            /\ \A v \in DOMAIN before : after[v] >= before[v]
      ]_vars

\* C9 witness: an admitted record_message stored the later of its two readings
\* while the other user is tracked as well.
ThrottleChangesOnlyOnAdmissionWitness ==
    /\ IsThrottling
    /\ IsRecord(call) /\ call.allowed
    /\ call.last > call.first
    /\ self.user_last_message_time[call.user] = call.last
    /\ DOMAIN self.user_last_message_time = Users

\* An atomic record, as C10 describes it: one reading t, prune with it, check
\* the length against max_requests, append t.
AtomicRecord(obj, u, t) ==
    LET cleaned == cleanup_window(obj, u, t)
    IN  IF Len(Window(cleaned, u)) < cleaned.max_requests
        THEN [self |-> SlidingAppend(cleaned, u, t), ret |-> TRUE]
        ELSE [self |-> cleaned, ret |-> FALSE]

\* C10: record_message is internally consistent.  Whatever the clock does
\* between its two readings, the call decides and leaves the object as an atomic
\* record does for one reading between the call's first and last.
RecordInternallyConsistent ==
    [][(IsSliding /\ IsRecord(call')) =>
        \E t \in call'.first..call'.last :
            /\ call'.allowed = AtomicRecord(self, call'.user, t).ret
            /\ self' = AtomicRecord(self, call'.user, t).self
      ]_vars

\* C11: every user's timestamp sequence is sorted in non-decreasing order, so
\* its front is its smallest timestamp, although record_message appends the
\* reading of its start after pruning with a later one.
SequencesSorted ==
    IsSliding =>
        \A u \in DOMAIN self.users_requests :
            LET window == self.users_requests[u]
            IN  \A i, j \in 1..Len(window) : i <= j => window[i] <= window[j]

\* C11 witness: a record_message that pruned with a later reading than the one
\* it appended put that earlier reading behind a timestamp it kept.
SequencesSortedWitness ==
    /\ IsSliding
    /\ IsRecord(call) /\ call.allowed /\ call.last > call.first
    /\ Len(Window(self, call.user)) = 2
    /\ Window(self, call.user)[2] = call.first

\* The readings the clock can still give.
Readings == now..MaxTime

\* C12: cleanup postcondition.  Right after _cleanup_window(user, t) every
\* timestamp left in the user's sequence is younger than window_size at t,
\* although the loop stops at the first front timestamp inside the window.
CleanupPostcondition ==
    IsSliding =>
        \A u \in Users, t \in Readings :
            LET window == Window(cleanup_window(self, u, t), u)
            IN  \A i \in 1..Len(window) : window[i] > t - self.window_size

\* C12 witness: a sequence whose front timestamp is expired while the one behind
\* it is inside the window, so the loop pops once and stops.
CleanupPostconditionWitness ==
    /\ IsSliding
    /\ \E u \in DOMAIN self.users_requests :
          LET window == self.users_requests[u]
          IN  /\ Len(window) = 2
              /\ window[1] <= now - self.window_size
              /\ window[2] > now - self.window_size
              /\ Window(cleanup_window(self, u, now), u) = <<window[2]>>

\* C13: no empty sequence persists.  After a public operation returns every key
\* of users_requests maps to a non-empty sequence; a user whose sequence the
\* pruning empties is removed from the mapping in the same call.
NoEmptySequence ==
    IsSliding =>
        /\ \A u \in DOMAIN self.users_requests : self.users_requests[u] # <<>>
        /\ \A u \in Users, t \in Readings :
              LET cleaned == cleanup_window(self, u, t)
              IN  u \in DOMAIN cleaned.users_requests
                     => cleaned.users_requests[u] # <<>>

\* C13 witness: can_send_message pruned the last timestamp of a recorded user,
\* who is no longer a key, while the other user is.
NoEmptySequenceWitness ==
    /\ IsSliding
    /\ IsCanSend(call)
    /\ call.user \in recorded
    /\ call.user \notin DOMAIN self.users_requests
    /\ DOMAIN self.users_requests # {}
    /\ admitted[call.user] # <<>>
    /\ admitted[call.user][Len(admitted[call.user])] = now - self.window_size

\* C14: _cleanup_window is idempotent under a non-decreasing clock.  For
\* readings t1 <= t2, cleanup at t1 and then at t2 leaves what one cleanup at
\* t2 leaves, and cleanup twice at one reading leaves what one cleanup leaves.
CleanupIdempotent ==
    IsSliding =>
        \A u \in Users, t1 \in Readings :
            \A t2 \in t1..MaxTime :
                cleanup_window(cleanup_window(self, u, t1), u, t2)
                    = cleanup_window(self, u, t2)

\* C14 witness: a sequence of which a cleanup now pops one timestamp and a
\* later cleanup pops the other.
CleanupIdempotentWitness ==
    /\ IsSliding
    /\ \E u \in DOMAIN self.users_requests :
          LET window == self.users_requests[u]
          IN  /\ Len(window) = 2
              /\ window[1] <= now - self.window_size
              /\ window[2] > now - self.window_size
              /\ window[2] + self.window_size <= MaxTime

\* The timestamps of window that are younger than window_size at reading t.
Younger(window, t) ==
    LET Inside(x) == x > t - self.window_size
    IN  SelectSeq(window, Inside)

\* C15: can_send_message and time_until_next_allowed only prune.  After either
\* the user's sequence is the suffix of the sequence before made of exactly the
\* timestamps younger than window_size, nothing is added, and a record_message
\* returns and leaves the same whether or not can_send_message was called
\* before it at the same clock reading.
QueriesOnlyPrune ==
    [][(IsSliding /\ (IsCanSend(call') \/ IsTimeUntil(call'))) =>
        LET u == call'.user
            before == Window(self, u)
            after == Window(self', u)
        IN  /\ after = Younger(before, now)
            /\ after = SubSeq(before, Len(before) - Len(after) + 1, Len(before))
            /\ IsCanSend(call') =>
                  \A d \in 0..MaxDelta :
                      Sliding_record_message(self', u, now, now + d)
                          = Sliding_record_message(self, u, now, now + d)
      ]_vars

\* C15 witness: can_send_message at the reading at which the older of two
\* admitted timestamps turned window_size old left only the younger one.
QueriesOnlyPruneWitness ==
    /\ IsSliding
    /\ IsCanSend(call) /\ call.allowed
    /\ Len(admitted[call.user]) = 2
    /\ admitted[call.user][1] = now - self.window_size
    /\ Window(self, call.user) = <<admitted[call.user][2]>>

\* C16: with max_requests >= 1 no user's timestamp sequence is ever longer than
\* max_requests, however the clock advances between the readings of a call.
LengthAtMostMaxRequests ==
    IsSliding =>
        \A u \in DOMAIN self.users_requests :
            Len(self.users_requests[u]) <= self.max_requests

\* C16 witness: a record_message between whose readings the clock advanced
\* filled the user's sequence to max_requests = 2.
LengthAtMostMaxRequestsWitness ==
    /\ IsSliding
    /\ IsRecord(call) /\ call.allowed /\ call.last > call.first
    /\ self.max_requests = 2
    /\ Len(Window(self, call.user)) = 2
    /\ Window(self, call.user)[1] < now

\* C17: the two queries agree.  In one state and at one clock reading
\* time_until_next_allowed returns 0 exactly when can_send_message returns true,
\* and a positive value, at most window_size or min_interval, exactly when
\* can_send_message returns false.
QueriesAgree ==
    \A u \in Users, t \in Readings :
        /\ IsSliding =>
              LET w == Sliding_time_until_next_allowed(self, u, t).ret
                  ok == Sliding_can_send_message(self, u, t).ret
              IN  /\ w = 0 <=> ok
                  /\ (w > 0 /\ w <= self.window_size) <=> ~ok
        /\ IsThrottling =>
              LET w == Throttling_time_until_next_allowed(self, u, t)
                  ok == Throttling_can_send_message(self, u, t)
              IN  /\ w = 0 <=> ok
                  /\ (w > 0 /\ w <= self.min_interval) <=> ~ok

\* C17 witness: at one reading can_send_message returned false for a user of
\* the throttle for whom time_until_next_allowed had returned a positive wait.
QueriesAgreeWitness ==
    /\ IsThrottling
    /\ IsCanSend(call) /\ ~call.allowed
    /\ last_wait[call.user].known
    /\ last_wait[call.user].w > 0
    /\ last_wait[call.user].until - last_wait[call.user].w = now
    /\ now > self.user_last_message_time[call.user]

\* What the limiter stores for user u alone.
Own(obj, u) ==
    IF obj.class = "SlidingWindowRateLimiter"
    THEN [obj EXCEPT !.users_requests =
             [v \in DOMAIN obj.users_requests \cap {u} |-> obj.users_requests[v]]]
    ELSE [obj EXCEPT !.user_last_message_time =
             [v \in DOMAIN obj.user_last_message_time \cap {u} |->
                 obj.user_last_message_time[v]]]

\* C18: per-user isolation.  An operation called for user A leaves what is
\* stored for every other user B as it was, expired timestamps included, and
\* what it returns and stores for A is what it returns and stores when A is
\* the only user the limiter knows.
PerUserIsolation ==
    [][call'.op # "none" =>
        LET a == call'.user
        IN  /\ \A b \in Users \ {a} : Own(self', b) = Own(self, b)
            /\ (IsSliding /\ IsCanSend(call')) =>
                  LET r == Sliding_can_send_message(Own(self, a), a, call'.last)
                  IN  call'.allowed = r.ret /\ Own(self', a) = r.self
            /\ (IsSliding /\ IsRecord(call')) =>
                  LET r == Sliding_record_message(Own(self, a), a,
                                                  call'.first, call'.last)
                  IN  call'.allowed = r.ret /\ Own(self', a) = r.self
            /\ (IsSliding /\ IsTimeUntil(call')) =>
                  LET r == Sliding_time_until_next_allowed(Own(self, a), a, call'.last)
                  IN  call'.wait = r.ret /\ Own(self', a) = r.self
            /\ (IsThrottling /\ IsCanSend(call')) =>
                  /\ call'.allowed
                        = Throttling_can_send_message(Own(self, a), a, call'.last)
                  /\ self' = self
            /\ (IsThrottling /\ IsRecord(call')) =>
                  LET r == Throttling_record_message(Own(self, a), a,
                                                     call'.first, call'.last)
                  IN  call'.allowed = r.ret /\ Own(self', a) = r.self
            /\ (IsThrottling /\ IsTimeUntil(call')) =>
                  /\ call'.wait
                        = Throttling_time_until_next_allowed(Own(self, a), a, call'.last)
                  /\ self' = self
      ]_vars

\* C18 witness: a call for one user pruned that user's sequence while the other
\* user's expired timestamp stayed stored.
PerUserIsolationWitness ==
    /\ IsSliding
    /\ call.op # "none"
    /\ call.user \in recorded
    /\ call.user \notin DOMAIN self.users_requests
    /\ \E b \in DOMAIN self.users_requests :
          self.users_requests[b][1] <= now - self.window_size

\* C19: max_requests = 0 is accepted.  For a user with no timestamp inside the
\* window can_send_message returns true and record_message returns true and
\* stores one timestamp, so the sequence is longer than max_requests; requests
\* of the user are refused exactly while that timestamp is inside the window,
\* and time_until_next_allowed then returns window_size - (now - timestamp).
ZeroMaxRequests ==
    [][(self.max_requests = 0 /\ call'.op # "none") =>
        LET u == call'.user
            before == Window(self, u)
            live == Younger(before, call'.last)
        IN  /\ Len(before) <= 1
            /\ (IsCanSend(call') \/ IsRecord(call')) =>
                  (call'.allowed <=> live = <<>>)
            /\ (IsRecord(call') /\ call'.allowed) =>
                  Window(self', u) = <<call'.first>>
            /\ (IsRecord(call') /\ ~call'.allowed) => Window(self', u) = before
            /\ IsTimeUntil(call') =>
                  call'.wait = IF live = <<>> THEN 0
                               ELSE self.window_size - (now - live[1])
      ]_vars

\* C19 witness: with max_requests = 0 a record_message was admitted and the
\* user's sequence holds one timestamp, while the other user is being refused.
ZeroMaxRequestsWitness ==
    /\ self.max_requests = 0
    /\ IsRecord(call) /\ call.allowed
    /\ Len(Window(self, call.user)) = 1
    /\ \E b \in Users \ {call.user} :
          /\ last_wait[b].known
          /\ last_wait[b].w > 0
          /\ last_wait[b].until > now

=============================================================================
